---------------------------- MODULE Spec2Model ----------------------------
(* Model of the service worker src/sw.js: the cache store (named cache       *)
(* generations holding response snapshots), the fetch listener and its two   *)
(* strategies cacheFirst and networkFirst, and the lifecycle listeners        *)
(* install, activate and message.  Every await of the script is a step       *)
(* boundary; the part of a handler between two awaits is one action.         *)
EXTENDS Integers, Sequences, FiniteSets, TLC

(***************************************************************************)
(* Bounds of the model.                                                    *)
(***************************************************************************)
\* number of fetch-handler invocations that may be in flight together
MaxCalls == 1
\* number of cache objects alive together (bound to a name or still held)
MaxObjs == 4
\* number of cache.put writes that may be pending together
MaxPuts == 1
\* number of entries of STATIC_ASSETS that are preloaded
MaxAssets == 2
\* number of distinct response bodies the network serves
MaxBody == 2
\* longest hostname (in tokens) classified under SpecRoute
MaxHostLen == 3

(***************************************************************************)
(* Program constants.                                                      *)
(***************************************************************************)
CACHE_NAME == "quran-app-v2.0"
RUNTIME_CACHE == "quran-runtime-v2.0"

\* Generations left behind by earlier versions of the worker.
OldNames == {"quran-app-v1.0", "quran-runtime-v1.0"}
Names == {CACHE_NAME, RUNTIME_CACHE} \cup OldNames

AllAssets ==
  << "/", "/index.html", "/styles.css", "/js/app.js",
     "/manifest.json", "/logo.png", "/splash.png", "/favicon.png" >>
STATIC_ASSETS ==
  SubSeq(AllAssets, 1, IF MaxAssets < Len(AllAssets) THEN MaxAssets ELSE Len(AllAssets))

(***************************************************************************)
(* URLs.  A hostname is a sequence of tokens; each domain string of the    *)
(* two lists of the script is one token, so that String.includes is        *)
(* containment of a contiguous subsequence.                                *)
(***************************************************************************)
SelfHost == << "quran", ".app" >>
LocationOrigin == [scheme |-> "https", host |-> SelfHost]

Origin(url) == [scheme |-> url.scheme, host |-> url.host]

Includes(hostname, domain) ==
  \E i \in 1..(Len(hostname) - Len(domain) + 1) :
      SubSeq(hostname, i, i + Len(domain) - 1) = domain

apiDomains ==
  { << "api.quran.com" >>, << "api.aladhan.com" >>,
    << "cdn.jsdelivr.net" >>, << "api.bigdatacloud.net" >> }

allowedDomains ==
  { << "api.quran.com" >>, << "api.aladhan.com" >>,
    << "cdn.jsdelivr.net" >>, << "api.bigdatacloud.net" >>,
    << "server" >>, << ".mp3quran.net" >>, << "fonts.googleapis.com" >>,
    << "fonts.gstatic.com" >>, << "raw.githubusercontent.com" >> }

\* Faulty variant: the live-API test made against the allow-list.
isAPIRequest_allowList(url) ==
  \E domain \in allowedDomains : Includes(url.host, domain)

isAPIRequest(url) == \E domain \in apiDomains : Includes(url.host, domain)

isAllowedAPI(url) == \E domain \in allowedDomains : Includes(url.host, domain)

\* Faulty variant: the listener without its test of request.method.
Route_noMethodCheck(request) ==
  IF Origin(request.url) # LocationOrigin /\ ~isAllowedAPI(request.url)
    THEN "ignored"
    ELSE IF isAPIRequest(request.url) THEN "networkFirst" ELSE "cacheFirst"

\* The decision of the fetch listener: which strategy answers the request,
\* or "ignored" when the listener returns without event.respondWith.
Route(request) ==
  IF request.method # "GET" THEN "ignored"
  ELSE IF Origin(request.url) # LocationOrigin /\ ~isAllowedAPI(request.url)
    THEN "ignored"
    ELSE IF isAPIRequest(request.url) THEN "networkFirst" ELSE "cacheFirst"

(***************************************************************************)
(* Requests.                                                               *)
(***************************************************************************)
Url(scheme, host, path) == [scheme |-> scheme, host |-> host, path |-> path]
Req(method, url, mode) == [method |-> method, url |-> url, mode |-> mode]

\* new Request('/index.html') as cache.addAll and caches.match build it:
\* the path resolved against the worker's location, method GET.
ResolveURL(path) == Url("https", SelfHost, path)

ReqIndex == Req("GET", ResolveURL("/index.html"), "navigate")
ReqApi == Req("GET", Url("https", << "api.quran.com" >>, "/v4/x"), "cors")
ReqPost == Req("POST", ResolveURL("/favorite"), "cors")
ReqForeign == Req("GET", Url("https", << "example", ".com" >>, "/x"), "no-cors")

\* The requests the pages send while the worker runs.
Requests == {ReqIndex, ReqApi, ReqPost, ReqForeign}

\* The identity under which the cache store files a request.
Key(request) == [method |-> request.method, url |-> request.url]
UrlKey(path) == [method |-> "GET", url |-> ResolveURL(path)]

ManifestKeys == {UrlKey(STATIC_ASSETS[a]) : a \in 1..Len(STATIC_ASSETS)}
OfflineKey == UrlKey("/offline.html")
Keys == {Key(r) : r \in Requests} \cup ManifestKeys \cup {OfflineKey}

(***************************************************************************)
(* Responses and cache entries.                                            *)
(***************************************************************************)
Bodies == 1..MaxBody

Entry(status, body) == [status |-> status, body |-> body]
NoEntry == Entry(0, 0)
\* The responses the network serves: a 200 with one of the bodies, a 204
\* (no content) or a 404, both with the empty body.
Entries == {Entry(200, b) : b \in Bodies} \cup {Entry(204, 0), Entry(404, 0)}

\* Response.ok, and the test cache.addAll makes of every response it fetched.
IsOk(status) == status >= 200 /\ status <= 299
AddAllAccepts(status) == IsOk(status) /\ status # 206

\* What a handler hands back: a response (and where it came from: the cache,
\* the network, or the offline lookup), undefined, or a rejection.
Resp(e, via) == [kind |-> "response", entry |-> e, via |-> via]
Undefined == [kind |-> "undefined", entry |-> NoEntry, via |-> "offline"]
Failure == [kind |-> "error", entry |-> NoEntry, via |-> "network"]
\* The rejection of a cache store operation (open, match), handed on.
StoreFailure == [kind |-> "error", entry |-> NoEntry, via |-> "store"]
NoResult == [kind |-> "none", entry |-> NoEntry, via |-> "none"]


\* What fetch(request) may come to: a response of any status and body, or a
\* transport failure (the rejection of the promise).
NetOutcome(ok, e) == [ok |-> ok, entry |-> e]
NetOutcomes == {NetOutcome(TRUE, e) : e \in Entries} \cup {NetOutcome(FALSE, NoEntry)}

(***************************************************************************)
(* State.                                                                  *)
(***************************************************************************)
VARIABLES
  caches,      \* CacheStorage: generation name -> cache object (0: no such generation)
  objs,        \* cache object -> request identity -> stored entry (NoEntry: none)
  puts,        \* the cache.put writes dispatched and not yet completed
  calls,       \* the invocations of the fetch listener, by slot
  inst,        \* the install listener's run
  act,         \* the activate listener's run
  clr,         \* the 'clearCache' run of the message listener
  skipped,     \* self.skipWaiting() was called
  claimed,     \* self.clients.claim() was called
  passed,      \* the request the fetch listener ignored last
  lastRoute,   \* the request last classified, and its decision (SpecRoute)
  owed,        \* per identity: the body the last cacheFirst miss fetched with status 200
  createdSinceClr  \* a generation was created since clearCache listed the generations

vars == << caches, objs, puts, calls, inst, act, clr, skipped, claimed,
           passed, lastRoute, owed, createdSinceClr >>

ObjIds == 1..MaxObjs
CallIds == 1..MaxCalls

NoReq == Req("NONE", Url("none", << >>, "none"), "none")

\* owed[k]: the body a returned cacheFirst call fetched for k and put; st is
\* "pending" while that write is in flight and "done" once it has landed in
\* the live static generation.  Another write landing there, or a lifecycle
\* step, ends the obligation.
NoOwed == [body |-> 0, st |-> "none"]
NothingOwed == [k \in Keys |-> NoOwed]

\* pc: idle, open, match, fetch, offline, nfmatch, done.  owed: the body owed
\* for the request's identity when the call started (0: none).  net: what
\* await fetch(request) came to in this call: "none" (not invoked),
\* "response" or "failed".
IdleCall ==
  [pc |-> "idle", strategy |-> "none", req |-> NoReq, cache |-> 0,
   fetched |-> FALSE, net |-> "none", result |-> NoResult, owed |-> 0]

NewCall(strategy, request) ==
  [IdleCall EXCEPT !.pc = "open", !.strategy = strategy, !.req = request,
                   !.owed = IF strategy = "cacheFirst" THEN owed[Key(request)].body ELSE 0]

\* The call once it has handed back `result`.
Returned(c, result) ==
  [c EXCEPT !.pc = "done", !.result = result, !.req = NoReq, !.cache = 0, !.owed = 0]

IdleInst == [pc |-> "idle", cache |-> 0, retried |-> FALSE]
IdleAct == [pc |-> "idle", pending |-> {}]
IdleClr == [pc |-> "idle", pending |-> {}]

EmptyCache == [k \in Keys |-> NoEntry]

\* caches.keys()
Existing == {n \in Names : caches[n] # 0}

\* The store as the earlier version of the worker left it: its static and
\* its runtime generation, each holding what it cached; the generations of
\* this version do not exist yet.
InitWorker ==
  /\ caches = [n \in Names |->
                 IF n = "quran-app-v1.0" THEN 1
                 ELSE IF n = "quran-runtime-v1.0" THEN 2 ELSE 0]
  /\ objs = [o \in ObjIds |->
               IF o = 1 THEN [EmptyCache EXCEPT ![Key(ReqIndex)] = Entry(200, 1)]
               ELSE IF o = 2 THEN [EmptyCache EXCEPT ![Key(ReqApi)] = Entry(200, 1)]
               ELSE EmptyCache]
  /\ puts = {}
  /\ calls = [i \in CallIds |-> IdleCall]
  /\ inst = IdleInst
  /\ act = IdleAct
  /\ clr = IdleClr
  /\ skipped = FALSE
  /\ claimed = FALSE
  /\ passed = NoReq
  /\ owed = NothingOwed
  /\ createdSinceClr = FALSE

Init == InitWorker /\ lastRoute = [req |-> NoReq, decision |-> "none"]

(***************************************************************************)
(* The cache store.                                                        *)
(***************************************************************************)
\* caches.open(name): the generation of that name, created empty if absent.
\* A cache object is alive while a name is bound to it or a handler or a
\* pending write still holds it.
Held(o) ==
  \/ \E n \in Names : caches[n] = o
  \/ \E i \in CallIds : calls[i].cache = o
  \/ \E p \in puts : p.cache = o
  \/ inst.cache = o
HeldNext(o) ==
  \/ \E n \in Names : caches'[n] = o
  \/ \E i \in CallIds : calls'[i].cache = o
  \/ \E p \in puts' : p.cache = o
  \/ inst'.cache = o
\* The cache objects after a step: one that nothing holds any more is gone.
Collect(os) == [o \in ObjIds |-> IF HeldNext(o) THEN os[o] ELSE EmptyCache]

CanOpen(name) == caches[name] # 0 \/ \E o \in ObjIds : ~Held(o)
OpenedId(name) ==
  IF caches[name] # 0 THEN caches[name]
  ELSE CHOOSE o \in ObjIds : ~Held(o) /\ \A q \in ObjIds : ~Held(q) => o <= q
DoOpen(name) ==
  /\ CanOpen(name)
  /\ caches' = [caches EXCEPT ![name] = OpenedId(name)]
  /\ createdSinceClr' = (createdSinceClr \/ (caches[name] = 0 /\ clr.pc = "deleting"))

\* cache.match(request) on an opened cache: only a GET request matches.
CacheMatch(o, request) ==
  IF request.method # "GET" THEN NoEntry ELSE objs[o][Key(request)]

\* caches.match(key): the first generation, in order of creation, that holds it.
StorageMatch(key) ==
  LET holders == {caches[n] : n \in Existing} \cap {o \in ObjIds : objs[o][key] # NoEntry}
  IN IF holders = {} THEN NoEntry
     ELSE objs[CHOOSE o \in holders : \A q \in holders : o <= q][key]

\* cache.put(request, response.clone()): the write, as dispatched.  latest
\* marks the write of the call that returned last for this identity.
\* by is the strategy that dispatched it: the one the listener chose for the
\* request.
PutOf(o, request, e) ==
  [cache |-> o, key |-> Key(request), entry |-> e, latest |-> TRUE,
   by |-> Route(request)]

\* The pending writes once `new` joins them.
WithPuts(pending, new) ==
  {[p EXCEPT !.latest = p.latest /\ \A q \in new : q.key # p.key] : p \in pending}
    \cup new

\* caches.delete(name): the name is unbound; the cache object stays usable
\* by whoever opened it.
Unbind(name) == [caches EXCEPT ![name] = 0]

\* A lifecycle step ends the obligation a returned cacheFirst call left.
Forget(cs) == [i \in CallIds |-> [cs[i] EXCEPT !.owed = 0]]

(***************************************************************************)
(* The fetch listener.                                                     *)
(***************************************************************************)
\* self.addEventListener('fetch', ...): the request is ignored (the listener
\* returns) or answered by one of the two strategies (event.respondWith).
\* Fetch events reach the worker once it is activated; the requests are
\* followed from the point where an activate has run to its end.
FetchEvent(i, request) ==
  /\ claimed
  /\ calls[i].pc \in {"idle", "done"}
  /\ calls' = IF Route(request) = "ignored" THEN calls
              ELSE [calls EXCEPT ![i] = NewCall(Route(request), request)]
  /\ passed' = IF Route(request) = "ignored" THEN request ELSE passed
  /\ UNCHANGED << caches, puts, inst, act, clr, skipped, claimed, lastRoute,
                  owed, createdSinceClr >>
  /\ objs' = Collect(objs)

(***************************************************************************)
(* cacheFirst                                                              *)
(***************************************************************************)
\* Faulty variant: both strategies keep their entries in the static generation.
StrategyCache_shared(strategy) == CACHE_NAME

\* Faulty variant: the two names are exchanged.
StrategyCache_swapped(strategy) ==
  IF strategy = "cacheFirst" THEN RUNTIME_CACHE ELSE CACHE_NAME

\* The generation a strategy opens: caches.open(CACHE_NAME) in cacheFirst,
\* caches.open(RUNTIME_CACHE) in networkFirst.
StrategyCache(strategy) ==
  IF strategy = "cacheFirst" THEN CACHE_NAME ELSE RUNTIME_CACHE

\* const cache = await caches.open(CACHE_NAME)
CFOpen(i) ==
  /\ calls[i].pc = "open" /\ calls[i].strategy = "cacheFirst"
  /\ DoOpen(StrategyCache("cacheFirst"))
  /\ calls' = [calls EXCEPT ![i].cache = OpenedId(StrategyCache("cacheFirst")),
                            ![i].pc = "match"]
  /\ UNCHANGED << puts, inst, act, clr, skipped, claimed, passed, lastRoute, owed >>
  /\ objs' = Collect(objs)

\* Faulty variant: the hit is not returned, the network is asked anyway.
CFAfterMatch_revalidate(c, cached) == [c EXCEPT !.pc = "fetch", !.owed = 0]

\* if (cached) return cached: the call after cache.match came to `cached`.
CFAfterMatch(c, cached) ==
  IF cached # NoEntry
    THEN Returned(c, Resp(cached, "cache"))
    ELSE [c EXCEPT !.pc = "fetch", !.owed = 0]

\* const cached = await cache.match(request)
CFMatch(i) ==
  /\ calls[i].pc = "match" /\ calls[i].strategy = "cacheFirst"
  /\ calls' = [calls EXCEPT
                 ![i] = CFAfterMatch(calls[i], CacheMatch(calls[i].cache, calls[i].req))]
  /\ UNCHANGED << caches, puts, inst, act, clr, skipped, claimed, passed, lastRoute,
                  owed, createdSinceClr >>
  /\ objs' = Collect(objs)

\* Faulty variant: the response is put whatever its status.
StrategyPuts_anyStatus(o, request, e) == {PutOf(o, request, e)}

\* Faulty variant: what is put is not the body that was fetched.
StrategyPuts_otherBody(o, request, e) ==
  IF e.status = 200
    THEN {PutOf(o, request, Entry(200, (e.body % MaxBody) + 1))} ELSE {}

\* Faulty variant: the response is returned and nothing is put.
StrategyPuts_none(o, request, e) == {}

\* if (response && response.status === 200) cache.put(request, response.clone())
\* the writes a strategy dispatches for the response it fetched; none is awaited.
StrategyPuts(o, request, e) ==
  IF e.status = 200 THEN {PutOf(o, request, e)} ELSE {}

\* catch (error): the call after the fetch failed.
CFAfterFailure(c) ==
  IF c.req.mode = "navigate"
    THEN [c EXCEPT !.pc = "offline", !.fetched = TRUE, !.net = "failed", !.cache = 0]
    ELSE Returned([c EXCEPT !.fetched = TRUE, !.net = "failed"], Failure)

\* const response = await fetch(request), and what follows it: the put
\* and the return, or the catch block.
CFFetch(i) ==
  /\ calls[i].pc = "fetch" /\ calls[i].strategy = "cacheFirst"
  /\ \E out \in NetOutcomes :
       IF out.ok
         THEN /\ Cardinality(WithPuts(puts, StrategyPuts(calls[i].cache, calls[i].req,
                                                        out.entry))) <= MaxPuts
              /\ puts' = WithPuts(puts, StrategyPuts(calls[i].cache, calls[i].req, out.entry))
              /\ calls' = [calls EXCEPT
                             ![i] = Returned([calls[i] EXCEPT !.fetched = TRUE,
                                                              !.net = "response"],
                                             Resp(out.entry, "network"))]
              /\ owed' = IF out.entry.status = 200
                           THEN [owed EXCEPT ![Key(calls[i].req)] =
                                   [body |-> out.entry.body, st |-> "pending"]]
                           ELSE owed
         ELSE /\ calls' = [calls EXCEPT ![i] = CFAfterFailure(calls[i])]
              /\ UNCHANGED << puts, owed >>
  /\ UNCHANGED << caches, inst, act, clr, skipped, claimed, passed, lastRoute,
                  createdSinceClr >>
  /\ objs' = Collect(objs)

\* return caches.match('/offline.html')
CFOffline(i) ==
  /\ calls[i].pc = "offline" /\ calls[i].strategy = "cacheFirst"
  /\ calls' = [calls EXCEPT
                 ![i] = Returned(calls[i],
                                 IF StorageMatch(OfflineKey) # NoEntry
                                   THEN Resp(StorageMatch(OfflineKey), "offline")
                                   ELSE Undefined)]
  /\ UNCHANGED << caches, puts, inst, act, clr, skipped, claimed, passed, lastRoute,
                  owed, createdSinceClr >>
  /\ objs' = Collect(objs)

(***************************************************************************)
(* networkFirst                                                            *)
(***************************************************************************)
\* const cache = await caches.open(RUNTIME_CACHE)
NFOpen(i) ==
  /\ calls[i].pc = "open" /\ calls[i].strategy = "networkFirst"
  /\ DoOpen(StrategyCache("networkFirst"))
  /\ calls' = [calls EXCEPT ![i].cache = OpenedId(StrategyCache("networkFirst")),
                            ![i].pc = "fetch"]
  /\ UNCHANGED << puts, inst, act, clr, skipped, claimed, passed, lastRoute, owed >>
  /\ objs' = Collect(objs)

\* Faulty variant: a response that is not a 200 is treated as a failure.
NFAfterFetch_fallbackOnStatus(c, out) ==
  IF out.ok /\ out.entry.status = 200
    THEN Returned([c EXCEPT !.fetched = TRUE, !.net = "response"],
                  Resp(out.entry, "network"))
    ELSE [c EXCEPT !.fetched = TRUE, !.pc = "nfmatch",
                   !.net = IF out.ok THEN "response" ELSE "failed"]

\* return response, whatever its status; catch (error): on to cache.match.
NFAfterFetch(c, out) ==
  IF out.ok
    THEN Returned([c EXCEPT !.fetched = TRUE, !.net = "response"],
                  Resp(out.entry, "network"))
    ELSE [c EXCEPT !.fetched = TRUE, !.pc = "nfmatch", !.net = "failed"]

\* const response = await fetch(request): the put and the return, or the
\* catch block up to its await.
NFFetch(i) ==
  /\ calls[i].pc = "fetch" /\ calls[i].strategy = "networkFirst"
  /\ \E out \in NetOutcomes :
       IF out.ok
         THEN /\ Cardinality(WithPuts(puts, StrategyPuts(calls[i].cache, calls[i].req,
                                                        out.entry))) <= MaxPuts
              /\ puts' = WithPuts(puts, StrategyPuts(calls[i].cache, calls[i].req, out.entry))
              /\ calls' = [calls EXCEPT ![i] = NFAfterFetch(calls[i], out)]
         ELSE /\ UNCHANGED puts
              /\ calls' = [calls EXCEPT ![i] = NFAfterFetch(calls[i], out)]
  /\ UNCHANGED << caches, inst, act, clr, skipped, claimed, passed, lastRoute, owed,
                  createdSinceClr >>
  /\ objs' = Collect(objs)

\* Faulty variant: the failure is thrown without a look at the cache.
NFAfterMatch_giveUp(c, cached) == Returned(c, Failure)

\* if (cached) return cached; throw error
NFAfterMatch(c, cached) ==
  Returned(c, IF cached # NoEntry THEN Resp(cached, "cache") ELSE Failure)

\* const cached = await cache.match(request), in the catch block
NFMatch(i) ==
  /\ calls[i].pc = "nfmatch" /\ calls[i].strategy = "networkFirst"
  /\ calls' = [calls EXCEPT
                 ![i] = NFAfterMatch(calls[i], CacheMatch(calls[i].cache, calls[i].req))]
  /\ UNCHANGED << caches, puts, inst, act, clr, skipped, claimed, passed, lastRoute,
                  owed, createdSinceClr >>
  /\ objs' = Collect(objs)

(***************************************************************************)
(* The store completes a dispatched cache.put.                             *)
(***************************************************************************)
\* The cache object after the write; a request that is not GET is refused.
Written(cache, key, e) ==
  IF key.method = "GET" THEN [cache EXCEPT ![key] = e] ELSE cache

PutComplete(p) ==
  /\ p \in puts
  /\ puts' = puts \ {p}
  /\ owed' = IF p.cache # caches[CACHE_NAME] THEN owed
             ELSE IF p.latest /\ owed[p.key].st = "pending"
               THEN [owed EXCEPT ![p.key].st = "done"]
               ELSE [owed EXCEPT ![p.key] = NoOwed]
  /\ calls' = IF p.cache # caches[CACHE_NAME] \/ (p.latest /\ owed[p.key].st = "pending")
                THEN calls
                ELSE [i \in CallIds |->
                        IF Key(calls[i].req) = p.key
                          THEN [calls[i] EXCEPT !.owed = 0] ELSE calls[i]]
  /\ UNCHANGED << caches, inst, act, clr, skipped, claimed, passed, lastRoute,
                  createdSinceClr >>
  /\ objs' = Collect([objs EXCEPT ![p.cache] = Written(@, p.key, p.entry)])

(***************************************************************************)
(* The lifecycle listeners.                                                *)
(***************************************************************************)
\* The lifecycle operations run one at a time: none of install, activate and
\* clearCache is under way.
LifecycleIdle ==
  /\ inst.pc \in {"idle", "failed", "done"}
  /\ act.pc \in {"idle", "done"} \/ (act.pc = "failed" /\ act.pending = {})
  /\ clr.pc \in {"idle", "done"}

\* self.addEventListener('install', ...); after a failed install the worker
\* is installed again.
InstallEvent ==
  /\ inst.pc \in {"idle", "failed"}
  /\ LifecycleIdle
  /\ inst' = [IdleInst EXCEPT !.pc = "open", !.retried = (inst.pc = "failed")]
  /\ calls' = Forget(calls)
  /\ owed' = NothingOwed
  /\ UNCHANGED << caches, puts, act, clr, skipped, claimed, passed, lastRoute,
                  createdSinceClr >>
  /\ objs' = Collect(objs)

\* caches.open(CACHE_NAME)
InstOpen ==
  /\ inst.pc = "open"
  /\ DoOpen(CACHE_NAME)
  /\ inst' = [inst EXCEPT !.cache = OpenedId(CACHE_NAME), !.pc = "addAll"]
  /\ calls' = Forget(calls)
  /\ owed' = NothingOwed
  /\ UNCHANGED << puts, act, clr, skipped, claimed, passed, lastRoute >>
  /\ objs' = Collect(objs)

\* cache.addAll fetches every asset; it succeeds when every fetch came to a
\* response that is ok.
AddAllOk(outs) ==
  \A a \in 1..Len(STATIC_ASSETS) : outs[a].ok /\ AddAllAccepts(outs[a].entry.status)

\* Faulty variant: each asset is stored as it arrives, up to the first failure.
AddAllResult_eachInTurn(cache, outs) ==
  [k \in Keys |->
     IF \E a \in 1..Len(STATIC_ASSETS) :
          /\ UrlKey(STATIC_ASSETS[a]) = k
          /\ \A b \in 1..a : outs[b].ok /\ AddAllAccepts(outs[b].entry.status)
       THEN outs[CHOOSE a \in 1..Len(STATIC_ASSETS) : UrlKey(STATIC_ASSETS[a]) = k].entry
       ELSE cache[k]]

\* The cache object after cache.addAll(STATIC_ASSETS) fetched `outs`, one
\* outcome per asset: every response stored in one batch, or nothing.
AddAllResult(cache, outs) ==
  IF AddAllOk(outs)
    THEN [k \in Keys |->
            IF \E a \in 1..Len(STATIC_ASSETS) : UrlKey(STATIC_ASSETS[a]) = k
              THEN outs[CHOOSE a \in 1..Len(STATIC_ASSETS) : UrlKey(STATIC_ASSETS[a]) = k].entry
              ELSE cache[k]]
    ELSE cache

\* return cache.addAll(STATIC_ASSETS), then .then(() => self.skipWaiting()):
\* skipWaiting is reached only when addAll resolved.
InstAddAll ==
  /\ inst.pc = "addAll"
  /\ calls' = Forget(calls)
  /\ owed' = NothingOwed
  /\ UNCHANGED << caches, puts, act, clr, claimed, passed, lastRoute, createdSinceClr >>
  /\ \E outs \in [1..Len(STATIC_ASSETS) -> NetOutcomes] :
       /\ inst' = [inst EXCEPT !.pc = IF AddAllOk(outs) THEN "done" ELSE "failed",
                               !.cache = 0]
       /\ skipped' = (skipped \/ AddAllOk(outs))
       /\ objs' = Collect([objs EXCEPT ![inst.cache] = AddAllResult(@, outs)])

\* Faulty variant: only one of the stale generations is deleted.
StaleNames_first(cacheNames) ==
  LET stale == {name \in cacheNames : name # CACHE_NAME /\ name # RUNTIME_CACHE}
  IN IF stale = {} THEN {} ELSE {CHOOSE name \in stale : TRUE}

\* Faulty variant: the filter keeps the runtime generation of the earlier version.
StaleNames_sameKind(cacheNames) ==
  {name \in cacheNames : name # CACHE_NAME /\ name # "quran-runtime-v1.0"}

\* Faulty variant: every runtime generation passes for the current one.
StaleNames_oldStatic(cacheNames) ==
  {name \in cacheNames : name # CACHE_NAME /\ name # RUNTIME_CACHE
                                            /\ name # "quran-runtime-v1.0"}

\* Faulty variant: activate clears as clearCache does.
StaleNames_all(cacheNames) == cacheNames

\* cacheNames.filter(name => name !== CACHE_NAME && name !== RUNTIME_CACHE)
StaleNames(cacheNames) ==
  {name \in cacheNames : name # CACHE_NAME /\ name # RUNTIME_CACHE}

\* self.addEventListener('activate', ...): the worker is activated once it
\* is installed.
ActivateEvent ==
  /\ inst.pc = "done"
  /\ act.pc \in {"idle", "done", "failed"}
  /\ LifecycleIdle
  /\ act' = [act EXCEPT !.pc = "keys"]
  /\ inst' = [inst EXCEPT !.retried = FALSE]
  /\ calls' = Forget(calls)
  /\ owed' = NothingOwed
  /\ UNCHANGED << caches, puts, clr, skipped, claimed, passed, lastRoute,
                  createdSinceClr >>
  /\ objs' = Collect(objs)

\* caches.keys().then(cacheNames => Promise.all(... caches.delete(name))):
\* every delete is dispatched at once.
ActKeys ==
  /\ act.pc = "keys"
  /\ act' = [act EXCEPT !.pending = StaleNames(Existing), !.pc = "deleting"]
  /\ calls' = Forget(calls)
  /\ owed' = NothingOwed
  /\ UNCHANGED << caches, puts, inst, clr, skipped, claimed, passed, lastRoute,
                  createdSinceClr >>
  /\ objs' = Collect(objs)

\* one caches.delete(name) completes
ActDelete(name) ==
  /\ act.pc \in {"deleting", "failed"}
  /\ name \in act.pending
  /\ caches' = Unbind(name)
  /\ act' = [act EXCEPT !.pending = @ \ {name}]
  /\ calls' = Forget(calls)
  /\ owed' = NothingOwed
  /\ UNCHANGED << puts, inst, clr, skipped, claimed, passed, lastRoute,
                  createdSinceClr >>
  /\ objs' = Collect(objs)

\* Promise.all(...) fulfilled: every delete has completed and none rejected.
CanClaim(a) == a.pc = "deleting" /\ a.pending = {}

\* .then(() => self.clients.claim())
ActClaim ==
  /\ CanClaim(act)
  /\ claimed' = TRUE
  /\ act' = [act EXCEPT !.pc = "done"]
  /\ calls' = Forget(calls)
  /\ owed' = NothingOwed
  /\ UNCHANGED << caches, puts, inst, clr, skipped, passed, lastRoute,
                  createdSinceClr >>
  /\ objs' = Collect(objs)

\* if (event.data.action === 'skipWaiting') self.skipWaiting()
MsgSkipWaiting ==
  /\ skipped' = TRUE
  /\ UNCHANGED << caches, puts, calls, inst, act, clr, claimed, passed, lastRoute,
                  owed, createdSinceClr >>
  /\ objs' = Collect(objs)

\* if (event.data.action === 'clearCache') event.waitUntil(caches.keys()...)
MsgClearCache ==
  /\ clr.pc \in {"idle", "done"}
  /\ LifecycleIdle
  /\ clr' = [IdleClr EXCEPT !.pc = "keys"]
  /\ calls' = Forget(calls)
  /\ owed' = NothingOwed
  /\ UNCHANGED << caches, puts, inst, act, skipped, claimed, passed, lastRoute,
                  createdSinceClr >>
  /\ objs' = Collect(objs)

\* self.addEventListener('message', ...)
MessageEvent(action) ==
  \/ action = "skipWaiting" /\ MsgSkipWaiting
  \/ action = "clearCache" /\ MsgClearCache

\* Faulty variant: clearCache filters as activate does.
ClearTargets_keepCurrent(names) ==
  {name \in names : name # CACHE_NAME /\ name # RUNTIME_CACHE}

\* names.map(name => caches.delete(name)): every generation listed
ClearTargets(names) == names

\* caches.keys().then(names => Promise.all(names.map(...)))
ClrKeys ==
  /\ clr.pc = "keys"
  /\ clr' = [clr EXCEPT !.pending = ClearTargets(Existing),
                        !.pc = "deleting"]
  /\ createdSinceClr' = FALSE
  /\ calls' = Forget(calls)
  /\ owed' = NothingOwed
  /\ UNCHANGED << caches, puts, inst, act, skipped, claimed, passed, lastRoute >>
  /\ objs' = Collect(objs)

\* one caches.delete(name) completes
ClrDelete(name) ==
  /\ clr.pc = "deleting"
  /\ name \in clr.pending
  /\ caches' = Unbind(name)
  /\ clr' = [clr EXCEPT !.pending = @ \ {name}]
  /\ calls' = Forget(calls)
  /\ owed' = NothingOwed
  /\ UNCHANGED << puts, inst, act, skipped, claimed, passed, lastRoute,
                  createdSinceClr >>
  /\ objs' = Collect(objs)

\* Promise.all resolves
ClrDone ==
  /\ clr.pc = "deleting"
  /\ clr.pending = {}
  /\ clr' = [IdleClr EXCEPT !.pc = "done"]
  /\ createdSinceClr' = FALSE
  /\ calls' = Forget(calls)
  /\ owed' = NothingOwed
  /\ UNCHANGED << caches, puts, inst, act, skipped, claimed, passed, lastRoute >>
  /\ objs' = Collect(objs)

(***************************************************************************)
(* The worker.                                                             *)
(***************************************************************************)
Next ==
  \/ \E i \in CallIds, request \in Requests : FetchEvent(i, request)
  \/ \E i \in CallIds : CFOpen(i)
  \/ \E i \in CallIds : CFMatch(i)
  \/ \E i \in CallIds : CFFetch(i)
  \/ \E i \in CallIds : CFOffline(i)
  \/ \E i \in CallIds : NFOpen(i)
  \/ \E i \in CallIds : NFFetch(i)
  \/ \E i \in CallIds : NFMatch(i)
  \/ \E p \in puts : PutComplete(p)
  \/ InstallEvent
  \/ InstOpen
  \/ InstAddAll
  \/ ActivateEvent
  \/ ActKeys
  \/ \E name \in Names : ActDelete(name)
  \/ ActClaim
  \/ \E action \in {"skipWaiting", "clearCache"} : MessageEvent(action)
  \/ ClrKeys
  \/ \E name \in Names : ClrDelete(name)
  \/ ClrDone

Spec == Init /\ [][Next]_vars

(***************************************************************************)
(* The worker with a cache store that may fail: a cache.put, caches.open,  *)
(* cache.match or caches.delete may reject.                                *)
(***************************************************************************)
\* Faulty variant: the put is awaited inside the try, and its rejection
\* reaches the caller in place of the response.
AfterPutFailure_propagated(cs, p) ==
  [i \in CallIds |->
     IF cs[i].pc = "done" /\ cs[i].result.via = "network"
       THEN [cs[i] EXCEPT !.result = StoreFailure] ELSE cs[i]]

\* cache.put(request, response.clone()) is not awaited and its promise is
\* dropped: its rejection reaches no call.
AfterPutFailure(cs, p) == cs

\* The write p rejects (the store is full): nothing is stored.
PutFail(p) ==
  /\ p \in puts
  /\ puts' = puts \ {p}
  /\ owed' = IF p.cache = caches[CACHE_NAME] /\ p.latest /\ owed[p.key].st = "pending"
               THEN [owed EXCEPT ![p.key].st = "failed"]
               ELSE owed
  /\ calls' = AfterPutFailure(calls, p)
  /\ UNCHANGED << caches, inst, act, clr, skipped, claimed, passed, lastRoute,
                  createdSinceClr >>
  /\ objs' = Collect(objs)

\* await caches.open(...) rejects: the first statement of either strategy,
\* outside its try block, so the call rejects.
OpenFail(i) ==
  /\ calls[i].pc = "open"
  /\ calls' = [calls EXCEPT ![i] = Returned(calls[i], StoreFailure)]
  /\ UNCHANGED << caches, puts, inst, act, clr, skipped, claimed, passed, lastRoute,
                  owed, createdSinceClr >>
  /\ objs' = Collect(objs)

\* await cache.match(request) rejects: in cacheFirst before the try block, in
\* networkFirst inside the catch block; either way the call rejects.
MatchFail(i) ==
  /\ calls[i].pc \in {"match", "nfmatch"}
  /\ calls' = [calls EXCEPT ![i] = Returned(calls[i], StoreFailure)]
  /\ UNCHANGED << caches, puts, inst, act, clr, skipped, claimed, passed, lastRoute,
                  owed, createdSinceClr >>
  /\ objs' = Collect(objs)

\* Faulty variant: the rejection of a delete is caught and dropped.
AfterDeleteFailure_swallowed(a, name) == [a EXCEPT !.pending = @ \ {name}]

\* Promise.all rejects as soon as one caches.delete(name) rejects: the
\* promise handed to event.waitUntil rejects, the .then is skipped.
AfterDeleteFailure(a, name) == [a EXCEPT !.pc = "failed", !.pending = @ \ {name}]

\* one caches.delete(name) rejects; the generation stays
ActDeleteFail(name) ==
  /\ act.pc \in {"deleting", "failed"}
  /\ name \in act.pending
  /\ act' = AfterDeleteFailure(act, name)
  /\ calls' = Forget(calls)
  /\ owed' = NothingOwed
  /\ UNCHANGED << caches, puts, inst, clr, skipped, claimed, passed, lastRoute,
                  createdSinceClr >>
  /\ objs' = Collect(objs)

NextFaults ==
  \/ Next
  \/ \E p \in puts : PutFail(p)
  \/ \E i \in CallIds : OpenFail(i)
  \/ \E i \in CallIds : MatchFail(i)
  \/ \E name \in Names : ActDeleteFail(name)

SpecFaults == Init /\ [][NextFaults]_vars

(***************************************************************************)
(* The fetch listener's classification alone, over every request that can  *)
(* be built from a few hostname tokens.                                    *)
(***************************************************************************)
HostTokens ==
  {"api.quran.com", "cdn.jsdelivr.net", "server", "fonts.gstatic.com",
   "quran", ".app", "x"}
Hostnames == UNION {[1..n -> HostTokens] : n \in 1..MaxHostLen}
RouteInputs ==
  {Req(method, Url(scheme, host, "/x"), "cors") :
     method \in {"GET", "POST"}, scheme \in {"https", "http"}, host \in Hostnames}

\* One request arrives, any of RouteInputs.
InitRoute ==
  /\ InitWorker
  /\ lastRoute \in {[req |-> request, decision |-> "none"] : request \in RouteInputs}

\* The listener's decision for the request, from its first line to
\* event.respondWith.
Classify ==
  /\ lastRoute.decision = "none"
  /\ lastRoute' = [lastRoute EXCEPT !.decision = Route(lastRoute.req)]
  /\ UNCHANGED << caches, objs, puts, calls, inst, act, clr, skipped, claimed,
                  passed, owed, createdSinceClr >>

NextRoute == Classify

SpecRoute == InitRoute /\ [][NextRoute]_vars

(***************************************************************************)
(* Properties.                                                             *)
(***************************************************************************)
Current == {CACHE_NAME, RUNTIME_CACHE}
Stored(o) == {k \in Keys : objs[o][k] # NoEntry}
StoredNext(o) == {k \in Keys : objs'[o][k] # NoEntry}
InFlight(i) == calls[i].pc \notin {"idle", "done"}

\* The step in which call i leaves the program point pc.
Leaves(i, pc) == calls[i].pc = pc /\ calls'[i].pc # pc

\* C1: when cacheFirst looks the request up and the generation it opened
\* holds an entry for it, the call returns exactly that entry, served from
\* the cache, and has not invoked fetch.
C1_HitServedWithoutFetch ==
  [][\A i \in CallIds :
       (/\ Leaves(i, "match")
        /\ calls[i].strategy = "cacheFirst"
        /\ objs[calls[i].cache][Key(calls[i].req)] # NoEntry)
       => /\ calls'[i].pc = "done"
          /\ calls'[i].result = Resp(objs[calls[i].cache][Key(calls[i].req)], "cache")
          /\ ~calls'[i].fetched]_vars

C1_Witness ==
  \E i \in CallIds :
    /\ calls[i].pc = "done" /\ calls[i].strategy = "cacheFirst"
    /\ calls[i].result.via = "cache" /\ ~calls[i].fetched

\* C2, as claimed: a cacheFirst call that starts after another cacheFirst
\* call for the same identity missed, fetched a 200 and returned (no
\* lifecycle step since) is a hit whose body is the fetched one.
C2_HitAfterReturn ==
  [][\A i \in CallIds :
       (/\ Leaves(i, "match")
        /\ calls[i].strategy = "cacheFirst"
        /\ calls[i].owed # 0)
       => calls'[i].result = Resp(Entry(200, calls[i].owed), "cache")]_vars

\* C2, amended: the same once the write the first call dispatched has landed
\* in the live static generation, no other write to the identity and no
\* lifecycle step having happened since.
C2_HitAfterWriteLanded ==
  [][\A i \in CallIds :
       (/\ Leaves(i, "match")
        /\ calls[i].strategy = "cacheFirst"
        /\ calls[i].owed # 0
        /\ owed[Key(calls[i].req)] = [body |-> calls[i].owed, st |-> "done"])
       => calls'[i].result = Resp(Entry(200, calls[i].owed), "cache")]_vars

C2_Witness ==
  \E i \in CallIds :
    /\ calls[i].pc = "match" /\ calls[i].strategy = "cacheFirst"
    /\ calls[i].owed # 0
    /\ owed[Key(calls[i].req)] = [body |-> calls[i].owed, st |-> "done"]
    /\ objs[calls[i].cache][Key(calls[i].req)] = Entry(200, calls[i].owed)

\* C3: when the fetch of networkFirst failed, the call returns the entry the
\* runtime generation it opened holds for the request, and rejects with the
\* failure when it holds none.
C3_StaleOrFailure ==
  [][\A i \in CallIds :
       Leaves(i, "nfmatch")
       => /\ calls'[i].pc = "done"
          /\ calls'[i].result =
               IF objs[calls[i].cache][Key(calls[i].req)] # NoEntry
                 THEN Resp(objs[calls[i].cache][Key(calls[i].req)], "cache")
                 ELSE Failure]_vars

C3_Witness ==
  \E i \in CallIds :
    /\ calls[i].pc = "done" /\ calls[i].strategy = "networkFirst"
    /\ calls[i].result.via = "cache" /\ calls[i].fetched

\* C4: an install whose addAll fails writes nothing and does not reach
\* skipWaiting; an install that succeeds (a re-run included) leaves an entry
\* for each asset of the manifest, and nothing else new, in the static
\* generation.
C4_InstallAllOrNothing ==
  [][/\ (inst.pc = "addAll" /\ inst'.pc = "failed")
          => (objs'[inst.cache] = objs[inst.cache] /\ skipped' = skipped)
     /\ (inst.pc = "addAll" /\ inst'.pc = "done")
          => /\ Cardinality(StoredNext(inst.cache) \cap ManifestKeys) = Len(STATIC_ASSETS)
             /\ StoredNext(inst.cache) = Stored(inst.cache) \cup ManifestKeys
             /\ skipped']_vars

C4_Witness ==
  /\ inst.pc = "done" /\ inst.retried
  /\ caches[CACHE_NAME] # 0
  /\ Stored(caches[CACHE_NAME]) = ManifestKeys

\* C5: once an activate has completed, a further activate deletes nothing:
\* none of its steps changes the set of generations, and it finds no
\* generation to delete.
C5_ActivateIdempotent ==
  [][(claimed /\ act' # act) => (Existing' = Existing /\ act'.pending = {})]_vars

C5_Witness == claimed /\ act.pc = "deleting"

\* C6: no entry and no pending write is keyed by a request that is not GET,
\* and no such request is ever in the hands of a strategy.
C6_OnlyGetIsCached ==
  /\ \A o \in ObjIds : \A k \in Stored(o) : k.method = "GET"
  /\ \A p \in puts : p.key.method = "GET"
  /\ \A i \in CallIds : InFlight(i) => calls[i].req.method = "GET"

C6_Witness ==
  /\ passed = ReqPost
  /\ \E o \in ObjIds : Key(ReqIndex) \in Stored(o) /\ caches[CACHE_NAME] = o
  /\ \A i \in CallIds : ~InFlight(i)

\* C7, as claimed: every entry of every generation has status 200.
C7_OnlyStatus200 ==
  \A o \in ObjIds : \A k \in Stored(o) : objs[o][k].status = 200

\* C7, amended: every write a strategy dispatches has status 200; an entry
\* with another status is an asset of the manifest that cache.addAll stored,
\* with an ok status.
C7_OnlyOkAndStrategies200 ==
  /\ \A p \in puts : p.entry.status = 200
  /\ \A o \in ObjIds : \A k \in Stored(o) :
       \/ objs[o][k].status = 200
       \/ k \in ManifestKeys /\ AddAllAccepts(objs[o][k].status)

C7_Witness ==
  /\ caches[CACHE_NAME] # 0 /\ caches[RUNTIME_CACHE] # 0
  /\ objs[caches[CACHE_NAME]][UrlKey("/")].status = 204
  /\ objs[caches[RUNTIME_CACHE]][Key(ReqApi)].status = 200

\* C8: the decision of the fetch listener is "ignored" for a request that is
\* not GET, or whose origin is not the worker's and whose hostname contains
\* no domain of the allow-list; otherwise "networkFirst" when the hostname
\* contains a live-API domain, and "cacheFirst" in every other case.
ClaimedRoute(request) ==
  CASE request.method # "GET" -> "ignored"
    [] request.method = "GET"
       /\ Origin(request.url) # LocationOrigin
       /\ ~\E d \in allowedDomains : Includes(request.url.host, d) -> "ignored"
    [] request.method = "GET"
       /\ (Origin(request.url) = LocationOrigin
           \/ \E d \in allowedDomains : Includes(request.url.host, d))
       /\ \E d \in apiDomains : Includes(request.url.host, d) -> "networkFirst"
    [] OTHER -> "cacheFirst"

C8_Classification ==
  lastRoute.decision # "none" => lastRoute.decision = ClaimedRoute(lastRoute.req)

C8_Witness ==
  /\ lastRoute.decision = "cacheFirst"
  /\ Origin(lastRoute.req.url) # LocationOrigin
  /\ Includes(lastRoute.req.url.host, << "server" >>)

\* C9: when activate has completed, every generation that exists is the
\* current static or the current runtime generation.
C9_OnlyCurrentAfterActivate == act.pc = "done" => Existing \subseteq Current

C9_Witness ==
  /\ act.pc = "done" /\ clr.pc = "idle"
  /\ Existing = Current

\* C10: clearCache lists every generation that exists, each delete unbinds
\* its generation, and when the deletes are done and no generation was
\* created meanwhile, no generation exists.
C10_ClearDeletesAll ==
  [][/\ (clr.pc = "keys" /\ clr'.pc = "deleting") => clr'.pending = Existing
     /\ \A n \in Names :
          (clr.pc = "deleting" /\ n \in clr.pending /\ n \notin clr'.pending)
            => caches'[n] = 0
     /\ (clr.pc = "deleting" /\ clr'.pc = "done")
          => (clr.pending = {} /\ (~createdSinceClr => Existing' = {}))]_vars

C10_Witness ==
  /\ clr.pc = "done" /\ Existing = {}
  /\ claimed
  /\ \E i \in CallIds : calls[i].pc = "done" /\ calls[i].result.via = "network"

\* The step in which call i, run by `strategy`, comes back from fetch with a
\* response of status 200.
Fetched200(i, strategy) ==
  /\ calls[i].strategy = strategy
  /\ Leaves(i, "fetch")
  /\ calls'[i].net = "response"
  /\ calls'[i].pc = "done"
  /\ calls'[i].result.entry.status = 200

\* C13, as claimed: when a strategy returns a 200 response it fetched, the
\* generation it opened already holds the snapshot.
C13_StoredBeforeReturn ==
  [][\A i \in CallIds : \A st \in {"cacheFirst", "networkFirst"} :
       Fetched200(i, st)
       => objs'[calls[i].cache][Key(calls[i].req)] = calls'[i].result.entry]_vars

\* C13, amended: when a strategy returns a 200 response it fetched, the write
\* of the snapshot into the generation it opened has been dispatched; it is
\* pending at the return.
C13_DispatchedBeforeReturn ==
  [][\A i \in CallIds : \A st \in {"cacheFirst", "networkFirst"} :
       Fetched200(i, st)
       => \E p \in puts' :
            /\ p.cache = calls[i].cache
            /\ p.key = Key(calls[i].req)
            /\ p.entry = calls'[i].result.entry]_vars

C13_Witness ==
  \E i \in CallIds : \E p \in puts :
    /\ calls[i].pc = "done" /\ calls[i].net = "response"
    /\ calls[i].result = Resp(p.entry, "network")
    /\ objs[p.cache][p.key] # p.entry

\* C14: when cacheFirst missed and the fetch failed, a call for a navigation
\* hands back a response (the offline document), and a call for any other
\* request rejects with the failure.
C14_OfflineDocumentOrFailure ==
  [][\A i \in CallIds :
       calls[i].strategy = "cacheFirst"
       => /\ Leaves(i, "offline") => calls'[i].result.kind = "response"
          /\ (Leaves(i, "fetch") /\ calls'[i].net = "failed"
                /\ calls[i].req.mode # "navigate")
               => (calls'[i].pc = "done" /\ calls'[i].result = Failure)]_vars

\* C15: networkFirst goes from the open to the fetch without a lookup; a
\* response, whatever its status, is returned as the network gave it, and is
\* not put unless its status is 200; the lookup in the cache follows a
\* failed fetch only; no call returns without having fetched.
C15_AlwaysNetworkPassThrough ==
  [][\A i \in CallIds :
       calls[i].strategy = "networkFirst"
       => /\ Leaves(i, "open") => (calls'[i].pc = "fetch" /\ calls'[i].net = "none")
          /\ (Leaves(i, "fetch") /\ calls'[i].net = "response")
               => /\ calls'[i].pc = "done"
                  /\ calls'[i].result.kind = "response"
                  /\ calls'[i].result.via = "network"
                  /\ calls'[i].result.entry.status # 200 => puts' = puts
          /\ calls'[i].pc = "nfmatch" => calls'[i].net = "failed"
          /\ (calls[i].pc # "done" /\ calls'[i].pc = "done") => calls'[i].fetched]_vars

C15_Witness ==
  \E i \in CallIds :
    /\ calls[i].pc = "done" /\ calls[i].strategy = "networkFirst"
    /\ calls[i].result = Resp(Entry(404, 0), "network")
    /\ caches[RUNTIME_CACHE] # 0
    /\ objs[caches[RUNTIME_CACHE]][Key(ReqApi)] # NoEntry

\* C16, as claimed: at most one delete of activate is under way at a time.
C16_OneDeleteAtATime == Cardinality(act.pending) <= 1

\* C16, amended: activate dispatches the delete of every stale generation
\* together; they complete one by one in any order, each removing its own
\* generation and no other.
C16_DeletesDispatchedTogether ==
  [][/\ (act.pc = "keys" /\ act'.pc = "deleting") => act'.pending = Existing \ Current
     /\ \A n \in Names :
          (act.pc = "deleting" /\ n \in act.pending /\ n \notin act'.pending)
            => /\ caches'[n] = 0
               /\ act'.pending = act.pending \ {n}
               /\ \A m \in Names \ {n} : caches'[m] = caches[m]]_vars

C16_Witness ==
  /\ act.pc = "deleting"
  /\ act.pending = {"quran-app-v1.0"}
  /\ caches["quran-app-v1.0"] # 0
  /\ caches["quran-runtime-v1.0"] = 0

\* C18, as claimed: the runtime generation comes into existence only in the
\* step in which a networkFirst call comes back from fetch with a 200.
C18_CreatedOnlyBySuccess ==
  [][(caches[RUNTIME_CACHE] = 0 /\ caches'[RUNTIME_CACHE] # 0)
       => \E i \in CallIds : Fetched200(i, "networkFirst")]_vars

\* C18, amended: the runtime generation comes into existence, empty, when a
\* networkFirst call opens it, before the fetch; it exists from the open on
\* whatever the fetch comes to, and a fetch that fails or gives another
\* status than 200 puts nothing.
C18_CreatedByOpen ==
  [][/\ (caches[RUNTIME_CACHE] = 0 /\ caches'[RUNTIME_CACHE] # 0)
          => /\ \E i \in CallIds :
                  calls[i].strategy = "networkFirst" /\ Leaves(i, "open")
             /\ objs'[caches'[RUNTIME_CACHE]] = EmptyCache
     /\ \A i \in CallIds :
          calls[i].strategy = "networkFirst"
          => /\ Leaves(i, "open")
                  => (caches'[RUNTIME_CACHE] # 0
                        /\ calls'[i].cache = caches'[RUNTIME_CACHE])
             /\ (Leaves(i, "fetch") /\ ~Fetched200(i, "networkFirst"))
                  => puts' = puts]_vars

C18_Witness ==
  /\ caches[RUNTIME_CACHE] # 0
  /\ objs[caches[RUNTIME_CACHE]] = EmptyCache
  /\ \E i \in CallIds :
       /\ calls[i].pc = "done" /\ calls[i].strategy = "networkFirst"
       /\ calls[i].result = Failure

GenerationOf(strategy) ==
  CASE strategy = "cacheFirst" -> "quran-app-v2.0"
    [] strategy = "networkFirst" -> "quran-runtime-v2.0"

C20_ActivateKeepsCurrent ==
  [][act' # act
       => \A n \in Current :
            /\ caches'[n] = caches[n]
            /\ caches[n] # 0 => objs'[caches[n]] = objs[caches[n]]]_vars

C20_Witness ==
  /\ act.pc = "deleting" /\ claimed
  /\ caches[CACHE_NAME] # 0 /\ caches[RUNTIME_CACHE] # 0
  /\ objs[caches[CACHE_NAME]] # EmptyCache
  /\ objs[caches[RUNTIME_CACHE]] # EmptyCache

\* The pending write p is ended by the step, and what it carried is not in
\* the cache it was for.
Dropped(p) ==
  /\ ~\E q \in puts' : q.cache = p.cache /\ q.key = p.key /\ q.entry = p.entry
  /\ objs'[p.cache][p.key] # p.entry

\* C11: a strategy that comes back from fetch with a response returns that
\* response, whatever becomes of the write it dispatches; and the step that
\* ends a write without storing it changes neither the position nor the
\* result of any call.
C11_WriteFailureNotObserved ==
  [][/\ \A i \in CallIds :
          (Leaves(i, "fetch") /\ calls'[i].net = "response")
            => /\ calls'[i].pc = "done"
               /\ calls'[i].result.kind = "response"
               /\ calls'[i].result.via = "network"
     /\ (\E p \in puts : Dropped(p))
          => \A i \in CallIds :
               calls'[i].pc = calls[i].pc /\ calls'[i].result = calls[i].result]_vars

C11_Witness ==
  \E i \in CallIds :
    /\ calls[i].pc = "done" /\ calls[i].strategy = "cacheFirst"
    /\ owed[Key(ReqIndex)].st = "failed"
    /\ calls[i].result = Resp(Entry(200, owed[Key(ReqIndex)].body), "network")
    /\ puts = {}
    /\ caches[CACHE_NAME] # 0
    /\ objs[caches[CACHE_NAME]][Key(ReqIndex)] = NoEntry

\* C12: a call rejects only when its fetch failed: a failure of the store
\* alone (opening the generation, looking the entry up) never reaches the
\* caller as an error.
C12_ErrorOnlyWhenNetworkFailed ==
  \A i \in CallIds :
    (calls[i].pc = "done" /\ calls[i].result.kind = "error") => calls[i].net = "failed"

\* C17: activate comes to its end, and claims the clients, only in a step
\* taken when every delete it dispatched has completed, and then no stale
\* generation exists; a run in which a delete failed stays failed, and does
\* not claim.
C17_ClaimAfterAllDeletes ==
  [][/\ (act.pc # "done" /\ act'.pc = "done")
          => /\ act.pc = "deleting" /\ act.pending = {}
             /\ claimed'
             /\ Existing' \subseteq Current
     /\ claimed' # claimed => (act.pc = "deleting" /\ act'.pc = "done")
     /\ \A n \in Names :
          (act.pc = "deleting" /\ n \in act.pending /\ n \notin act'.pending
             /\ caches'[n] # 0)
            => act'.pc = "failed"
     /\ act.pc = "failed" => (act'.pc \in {"failed", "keys"} /\ claimed' = claimed)]_vars

C17_Witness ==
  /\ act.pc = "failed" /\ act.pending = {}
  /\ ~claimed
  /\ caches["quran-app-v1.0"] # 0
  /\ caches["quran-runtime-v1.0"] = 0

=============================================================================
